---- MODULE Spec2Model ----
(***************************************************************************)
(* A model of pyemu's template / instruction file parsers                  *)
(* (pyemu/pst/pst_utils.py) and of the MonteCarlo engine (pyemu/mc.py).    *)
(*                                                                         *)
(* Text is modelled as a sequence of one-character strings, so that        *)
(* strip / split / lower / index act on characters as they do in Python.   *)
(* Python positions are 0-based; the helpers below keep the 0-based        *)
(* positions of the code and add 1 when they index a TLA+ sequence.        *)
(***************************************************************************)
EXTENDS Integers, Sequences, FiniteSets, TLC

VARIABLES
    tpl_file,      \* parse_tpl_file: [name, text] of the template file
    tpl_ret,       \* parse_tpl_file: outcome of the call (NotCalled before)
    ins_file,      \* parse_ins_file: [name, text] of the instruction file
    ins_ret,       \* parse_ins_file: outcome of the call (NotCalled before)
    string,        \* parse_ins_string: the argument
    scan,          \* parse_ins_string: [idx, obs_names, pc] of the while loop
    spectrum,      \* xtqx.s.x, the singular values of XtQX
    epsilon,       \* get_nsing: the argument, a rational <<num, den>>
    nsing_ret,     \* get_nsing: the returned value (None before)
    self,          \* MonteCarlo: [pst, jco, parensemble, obsensemble]
    call           \* MonteCarlo: the last method call and its outcome

vars == <<tpl_file, tpl_ret, ins_file, ins_ret, string, scan,
          spectrum, epsilon, nsing_ret, self, call>>

tplVars == <<tpl_file, tpl_ret>>
insVars == <<ins_file, ins_ret>>
scanVars == <<string, scan>>
nsingVars == <<epsilon, nsing_ret>>
mcVars == <<self, call>>

\* Python's None where an integer is expected (nsing=None, no return value)
None == -1

NotCalled == [raised |-> "NotCalled", file |-> "", cause |-> "None", ret |-> <<>>]

-----------------------------------------------------------------------------
(* Python str methods, on sequences of characters *)

IsSpace(c) == c \in {" ", "\n", "\t"}

\* str.lower() on one character
Lower(c) ==
    CASE c = "A" -> "a" [] c = "D" -> "d" [] c = "U" -> "u" [] c = "M" -> "m"
      [] c = "P" -> "p" [] c = "T" -> "t" [] c = "F" -> "f" [] c = "J" -> "j"
      [] c = "I" -> "i" [] c = "O" -> "o"
      [] OTHER -> c

\* str.lower()
LowerStr(s) == [i \in 1..Len(s) |-> Lower(s[i])]

RECURSIVE LStrip(_)
LStrip(s) == IF s # <<>> /\ IsSpace(Head(s)) THEN LStrip(Tail(s)) ELSE s

RECURSIVE RStrip(_)
RStrip(s) ==
    IF s # <<>> /\ IsSpace(s[Len(s)]) THEN RStrip(SubSeq(s, 1, Len(s) - 1)) ELSE s

\* str.strip()
Strip(s) == RStrip(LStrip(s))

\* str.split(sep) for a one-character sep: every occurrence separates, empty
\* pieces are kept, so the result has (number of sep in s) + 1 elements
RECURSIVE SplitFrom(_, _, _, _)
SplitFrom(s, sep, cur, out) ==
    IF s = <<>> THEN Append(out, cur)
    ELSE IF Head(s) = sep THEN SplitFrom(Tail(s), sep, <<>>, Append(out, cur))
    ELSE SplitFrom(Tail(s), sep, Append(cur, Head(s)), out)

SplitOn(s, sep) == SplitFrom(s, sep, <<>>, <<>>)

\* str.split() without argument: runs of whitespace separate, no empty pieces
RECURSIVE SplitWsFrom(_, _, _)
SplitWsFrom(s, cur, out) ==
    IF s = <<>> THEN (IF cur = <<>> THEN out ELSE Append(out, cur))
    ELSE IF IsSpace(Head(s))
         THEN SplitWsFrom(Tail(s), <<>>, IF cur = <<>> THEN out ELSE Append(out, cur))
    ELSE SplitWsFrom(Tail(s), Append(cur, Head(s)), out)

SplitWs(s) == SplitWsFrom(s, <<>>, <<>>)

\* seq[1::2]: the elements at the odd 0-based positions
OddItems(seq) == [k \in 1..(Len(seq) \div 2) |-> seq[2 * k]]

\* seq[::2]: the elements at the even 0-based positions
EvenItems(seq) == [k \in 1..((Len(seq) + 1) \div 2) |-> seq[2 * k - 1]]

\* x in list
InList(x, list) == \E i \in 1..Len(list) : list[i] = x

\* The lines of a text file as readline() / iteration over the file give them:
\* each line ends at its "\n" (kept), and a text that ends with "\n" has no
\* further empty line after it.
RECURSIVE LinesFrom(_, _, _)
LinesFrom(s, cur, out) ==
    IF s = <<>> THEN (IF cur = <<>> THEN out ELSE Append(out, cur))
    ELSE IF Head(s) = "\n" THEN LinesFrom(Tail(s), <<>>, Append(out, Append(cur, "\n")))
    ELSE LinesFrom(Tail(s), Append(cur, Head(s)), out)

Lines(text) == LinesFrom(text, <<>>, <<>>)

\* f.readline(): the first line, "" at end of file
ReadLine(text) == IF Lines(text) = <<>> THEN <<>> ELSE Head(Lines(text))

\* what "for line in f" iterates over after the readline()
RestLines(text) == IF Lines(text) = <<>> THEN <<>> ELSE Tail(Lines(text))

-----------------------------------------------------------------------------
(* parse_tpl_file *)

\* the body of "for p in par_line": append the fields not yet in par_names
RECURSIVE AddParLine(_, _)
AddParLine(par_line, par_names) ==
    IF par_line = <<>> THEN par_names
    ELSE AddParLine(Tail(par_line),
                    IF InList(Head(par_line), par_names) THEN par_names
                    ELSE Append(par_names, Head(par_line)))

\* "for line in f": the fields between marker pairs of every body line
RECURSIVE TplBody(_, _, _)
TplBody(lines, marker, par_names) ==
    IF lines = <<>> THEN par_names
    ELSE TplBody(Tail(lines), marker,
                 AddParLine(OddItems(SplitOn(Strip(Head(lines)), marker)), par_names))

\* TplTry without the assertion that the header has two entries
TplTryAnyLength(text) ==
    LET header == SplitWs(Strip(ReadLine(text)))
    IN  IF Len(header) = 0
          THEN [raised |-> "IndexError", par_names |-> <<>>]
        ELSE IF LowerStr(header[1]) \notin {<<"p", "t", "f">>, <<"j", "t", "f">>}
          THEN [raised |-> "AssertionError", par_names |-> <<>>]
        ELSE IF Len(header) < 2
          THEN [raised |-> "IndexError", par_names |-> <<>>]
        ELSE IF Len(header[2]) # 1
          THEN [raised |-> "AssertionError", par_names |-> <<>>]
        ELSE [raised |-> "None",
              par_names |-> TplBody(RestLines(text), header[2][1], <<>>)]

\* the statements inside the try block: what they raise, and par_names
TplTry(text) ==
    LET header == SplitWs(Strip(ReadLine(text)))
    IN  IF Len(header) = 0
          THEN [raised |-> "IndexError", par_names |-> <<>>]
        ELSE IF LowerStr(header[1]) \notin {<<"p", "t", "f">>, <<"j", "t", "f">>}
          THEN [raised |-> "AssertionError", par_names |-> <<>>]
        ELSE IF Len(header) # 2
          THEN [raised |-> "AssertionError", par_names |-> <<>>]
        ELSE IF Len(header[2]) # 1
          THEN [raised |-> "AssertionError", par_names |-> <<>>]
        ELSE [raised |-> "None",
              par_names |-> TplBody(RestLines(text), header[2][1], <<>>)]

\* par_names = [pn.strip().lower() for pn in par_names]
Normalise(names) == [i \in 1..Len(names) |-> LowerStr(Strip(names[i]))]

parse_tpl_file(f) ==
    LET t == TplTry(f.text)
    IN  IF t.raised # "None"
          THEN [raised |-> "Exception", file |-> f.name, cause |-> t.raised, ret |-> <<>>]
          ELSE [raised |-> "None", file |-> "", cause |-> "None",
                ret |-> Normalise(t.par_names)]

-----------------------------------------------------------------------------
(* parse_ins_string *)

istart_markers == <<"[", "(", "!">>
iend_markers == <<"]", ")", "!">>

\* list.index(x), 0-based, for an x that is in the list
ListIndex(list, x) == CHOOSE i \in 0..(Len(list) - 1) : list[i + 1] = x

\* s[a:b] for 0 <= a, with b clamped to the length as Python slices do
Slice(s, a, b) == SubSeq(s, a + 1, IF b < Len(s) THEN b ELSE Len(s))

\* str.index(c): the 0-based position of the first c in s; None stands for
\* the ValueError that str.index raises when c does not occur
StrIndex(s, c) ==
    IF \E i \in 1..Len(s) : s[i] = c
      THEN (CHOOSE i \in 1..Len(s) : s[i] = c /\ \A j \in 1..(i - 1) : s[j] # c) - 1
      ELSE None

Min(a, b) == IF a <= b THEN a ELSE b

ScanStart == [idx |-> 0, obs_names |-> <<>>, pc |-> "loop"]

\* ScanStep with the loop running up to the last character
ScanStepToEnd(s, st) ==
    IF st.idx >= Len(s) THEN [st EXCEPT !.pc = "return"]
    ELSE LET char == s[st.idx + 1]
         IN  IF InList(char, istart_markers)
               THEN LET em == iend_markers[ListIndex(istart_markers, char) + 1]
                        found == StrIndex(Slice(s, st.idx + 1, Len(s)), em)
                        eidx == Min(Len(s), found + st.idx + 1)
                        obs_name == Slice(s, st.idx + 1, eidx)
                    IN  IF found = None
                          THEN [st EXCEPT !.pc = "ValueError"]
                          ELSE [idx |-> eidx + 1,
                                obs_names |->
                                    IF LowerStr(obs_name) # <<"d", "u", "m">>
                                      THEN Append(st.obs_names, obs_name)
                                      ELSE st.obs_names,
                                pc |-> "loop"]
               ELSE [st EXCEPT !.idx = st.idx + 1]

\* ScanStep resuming at the closing marker instead of after it
ScanStepResumeAtCloser(s, st) ==
    IF st.idx >= Len(s) - 1 THEN [st EXCEPT !.pc = "return"]
    ELSE LET char == s[st.idx + 1]
         IN  IF InList(char, istart_markers)
               THEN LET em == iend_markers[ListIndex(istart_markers, char) + 1]
                        found == StrIndex(Slice(s, st.idx + 1, Len(s)), em)
                        eidx == Min(Len(s), found + st.idx + 1)
                        obs_name == Slice(s, st.idx + 1, eidx)
                    IN  IF found = None
                          THEN [st EXCEPT !.pc = "ValueError"]
                          ELSE [idx |-> eidx,
                                obs_names |->
                                    IF LowerStr(obs_name) # <<"d", "u", "m">>
                                      THEN Append(st.obs_names, obs_name)
                                      ELSE st.obs_names,
                                pc |-> "loop"]
               ELSE [st EXCEPT !.idx = st.idx + 1]

\* one pass through the body of "while True"
ScanStep(s, st) ==
    IF st.idx >= Len(s) - 1 THEN [st EXCEPT !.pc = "return"]
    ELSE LET char == s[st.idx + 1]
         IN  IF InList(char, istart_markers)
               THEN LET em == iend_markers[ListIndex(istart_markers, char) + 1]
                        found == StrIndex(Slice(s, st.idx + 1, Len(s)), em)
                        eidx == Min(Len(s), found + st.idx + 1)
                        obs_name == Slice(s, st.idx + 1, eidx)
                    IN  IF found = None
                          THEN [st EXCEPT !.pc = "ValueError"]
                          ELSE [idx |-> eidx + 1,
                                obs_names |->
                                    IF LowerStr(obs_name) # <<"d", "u", "m">>
                                      THEN Append(st.obs_names, obs_name)
                                      ELSE st.obs_names,
                                pc |-> "loop"]
               ELSE [st EXCEPT !.idx = st.idx + 1]

RECURSIVE ScanRun(_, _)
ScanRun(s, st) == IF st.pc # "loop" THEN st ELSE ScanRun(s, ScanStep(s, st))

parse_ins_string(s) ==
    LET st == ScanRun(s, ScanStart)
    IN  [raised |-> IF st.pc = "return" THEN "None" ELSE st.pc, ret |-> st.obs_names]

-----------------------------------------------------------------------------
(* parse_ins_file *)

\* obs_names.extend(parse_ins_string(item)) for every item, stopping at the
\* first item on which parse_ins_string raises
RECURSIVE ExtendAll(_, _)
ExtendAll(items, acc) ==
    IF acc.raised # "None" \/ items = <<>> THEN acc
    ELSE LET r == parse_ins_string(Head(items))
         IN  ExtendAll(Tail(items),
                       [raised |-> r.raised,
                        obs_names |-> IF r.raised = "None" THEN acc.obs_names \o r.ret
                                      ELSE acc.obs_names])

\* the items of one body line that go to parse_ins_string
InsItems(line, marker) ==
    IF InList(marker, line) THEN EvenItems(SplitOn(Strip(line), marker))
    ELSE <<Strip(line)>>

\* "for line in f"
RECURSIVE InsBody(_, _, _)
InsBody(lines, marker, acc) ==
    IF acc.raised # "None" \/ lines = <<>> THEN acc
    ELSE InsBody(Tail(lines), marker, ExtendAll(InsItems(Head(lines), marker), acc))

parse_ins_file(f) ==
    LET header == SplitWs(Strip(ReadLine(f.text)))
        Raise(e) == [raised |-> e, file |-> "", cause |-> "None", ret |-> <<>>]
    IN  IF Len(header) = 0 THEN Raise("IndexError")
        ELSE IF LowerStr(header[1]) \notin {<<"p", "i", "f">>, <<"j", "i", "f">>}
          THEN Raise("AssertionError")
        ELSE IF Len(header) < 2 THEN Raise("IndexError")
        ELSE IF Len(header[2]) # 1 THEN Raise("AssertionError")
        ELSE LET b == InsBody(RestLines(f.text), header[2][1],
                              [raised |-> "None", obs_names |-> <<>>])
             IN  IF b.raised # "None" THEN Raise(b.raised)
                 ELSE [raised |-> "None", file |-> "", cause |-> "None",
                       ret |-> Normalise(b.obs_names)]

-----------------------------------------------------------------------------
(* MonteCarlo.get_nsing *)

\* Ratios and epsilon are exact rationals <<numerator, denominator>> with a
\* positive denominator; they are compared by cross-multiplication.
RatLess(a, b) == a[1] * b[2] < b[1] * a[2]

RECURSIVE SeqMax(_)
SeqMax(s) ==
    IF Len(s) = 1 THEN s[1]
    ELSE LET m == SeqMax(Tail(s)) IN IF Head(s) >= m THEN Head(s) ELSE m

\* self.xtqx.s.x / self.xtqx.s.x.max()
Normalised(s) == [i \in 1..Len(s) |-> <<s[i], SeqMax(s)>>]

\* np.sort, ascending
RECURSIVE Insert(_, _)
Insert(sorted, x) ==
    IF sorted = <<>> THEN <<x>>
    ELSE IF RatLess(x, Head(sorted)) THEN <<x>> \o sorted
    ELSE <<Head(sorted)>> \o Insert(Tail(sorted), x)

RECURSIVE Sort(_)
Sort(s) == IF s = <<>> THEN <<>> ELSE Insert(Sort(Tail(s)), Head(s))

\* np.searchsorted(a, v), side='left': binary search for the first 0-based
\* position whose element is not below v
RECURSIVE Bisect(_, _, _, _)
Bisect(a, v, lo, hi) ==
    IF lo >= hi THEN lo
    ELSE LET mid == lo + ((hi - lo) \div 2)
         IN  IF RatLess(a[mid + 1], v) THEN Bisect(a, v, mid + 1, hi)
             ELSE Bisect(a, v, lo, mid)

\* searchsorted with side='right': the position after the elements equal to v
RECURSIVE BisectRight(_, _, _, _)
BisectRight(a, v, lo, hi) ==
    IF lo >= hi THEN lo
    ELSE LET mid == lo + ((hi - lo) \div 2)
         IN  IF ~RatLess(v, a[mid + 1]) THEN BisectRight(a, v, mid + 1, hi)
             ELSE BisectRight(a, v, lo, mid)

searchsorted_right(a, v) == BisectRight(a, v, 0, Len(a))

searchsorted(a, v) == Bisect(a, v, 0, Len(a))

\* get_nsing returning the insertion point itself, not the count above it
get_nsing_insertion_point(s, eps) == searchsorted(Sort(Normalised(s)), eps)

\* xtqx is square, so xtqx.shape[0] is the number of singular values
get_nsing(s, eps) == Len(s) - searchsorted(Sort(Normalised(s)), eps)

\* the default of the epsilon argument
DefaultEpsilon == <<1, 1000000>>

-----------------------------------------------------------------------------
(* The MonteCarlo engine and its collaborators *)

ParNames == <<"p1", "p2">>
ObsNames == <<"o1">>
NPar == Len(ParNames)
NObs == Len(ObsNames)

\* the control file the engine is built from, and the values a parameter
\* value file holds
Pst0 == [parval1 |-> [i \in 1..NPar |-> 5], obsval |-> [i \in 1..NObs |-> 3]]
ParFileVals == [i \in 1..NPar |-> 7]
ParLbnd == [i \in 1..NPar |-> 0]
ParUbnd == [i \in 1..NPar |-> 1]

NoParFile == "None"
ParFiles == {NoParFile, "ref.par", "missing.par"}
Exists(par_file) == par_file = "ref.par"

\* Pst.parrep(par_file): the parameter values of the file replace parval1
parrep(pst, par_file) == [pst EXCEPT !.parval1 = ParFileVals]

\* Pst.get(par_names, obs_names): a copy of the control file
PstGet(pst) == pst

\* ParameterEnsemble(pst=...), ObservationEnsemble(pst=...): no realizations
NewParEnsemble == [rows |-> <<>>, islog |-> FALSE]
NewObsEnsemble == [rows |-> <<>>]

\* Ensemble.shape[0]
Shape0(en) == Len(en.rows)

\* MonteCarlo.num_reals
num_reals(mc) == Shape0(mc.parensemble)

RECURSIVE Pow10(_)
Pow10(v) == IF v = 0 THEN 1 ELSE 10 * Pow10(v - 1)

\* ParameterEnsemble._back_transform(inplace=False): the ensemble out of log space
BackTransform(en) ==
    [rows |-> [r \in 1..Len(en.rows) |-> [c \in 1..NPar |-> Pow10(en.rows[r][c])]],
     islog |-> FALSE]

\* ParameterEnsemble.enforce(): values outside the bounds are moved to the bound
Enforce(en) ==
    [en EXCEPT !.rows =
        [r \in 1..Len(en.rows) |->
            [c \in 1..NPar |->
                IF en.rows[r][c] < ParLbnd[c] THEN ParLbnd[c]
                ELSE IF en.rows[r][c] > ParUbnd[c] THEN ParUbnd[c]
                ELSE en.rows[r][c]]]]

\* xtqx.v: the right singular vectors, here the columns of the exchange matrix
V(a, k) == IF a + k = NPar + 1 THEN 1 ELSE 0

\* entry (a, b) of V2 * V2^T: the sum of V(a, k) * V(b, k) over the columns from k on
RECURSIVE ProjEntry(_, _, _)
ProjEntry(a, b, k) ==
    IF k > NPar THEN 0 ELSE V(a, k) * V(b, k) + ProjEntry(a, b, k + 1)

\* MonteCarlo.get_null_proj: V2 * V2^T, V2 the columns of V from nsing on
get_null_proj(s, nsing) ==
    LET n == IF nsing = None THEN get_nsing(s, DefaultEpsilon) ELSE nsing
    IN  [a \in 1..NPar |-> [b \in 1..NPar |-> ProjEntry(a, b, n + 1)]]

\* entry b of row * proj: the sum of row[a] * proj[a][b] over the rows from a on
RECURSIVE RowTimes(_, _, _, _)
RowTimes(row, proj, b, a) ==
    IF a > NPar THEN 0 ELSE row[a] * proj[a][b] + RowTimes(row, proj, b, a + 1)

\* ParameterEnsemble.project: every realization times the projection matrix
Project(en, proj) ==
    [en EXCEPT !.rows =
        [r \in 1..Len(en.rows) |-> [b \in 1..NPar |-> RowTimes(en.rows[r], proj, b, 1)]]]

\* what a method call leaves behind: the engine, the exception raised (or
\* "None"), the value returned (<<>> for None) and the files written
Outcome(mc, raised, ret, written) ==
    [self |-> mc, raised |-> raised, ret |-> ret, written |-> written]

\* MonteCarlo.__init__
NewMonteCarlo(jco) ==
    [pst |-> Pst0, jco |-> jco,
     parensemble |-> NewParEnsemble, obsensemble |-> NewObsEnsemble]

\* draw that redraws the observation ensemble whatever the obs flag says
draw_obs_always(mc, n, par_file, obs, enforce_bounds, cov, par_en, obs_en) ==
    IF par_file # NoParFile /\ ~Exists(par_file)
      THEN Outcome(mc, "IOError", <<>>, <<>>)
    ELSE LET mc1 == IF par_file # NoParFile
                      THEN [mc EXCEPT !.pst = parrep(mc.pst, par_file)] ELSE mc
         IN  IF cov \notin {"None", "Cov"}
               THEN Outcome(mc1, "AssertionError", <<>>, <<>>)
             ELSE Outcome([mc1 EXCEPT !.parensemble =
                                 IF enforce_bounds THEN Enforce(par_en) ELSE par_en,
                              !.obsensemble = obs_en],
                          "None", <<>>, <<>>)

\* MonteCarlo.draw; par_en and obs_en are the realizations the random number
\* generator produces
draw(mc, n, par_file, obs, enforce_bounds, cov, par_en, obs_en) ==
    IF par_file # NoParFile /\ ~Exists(par_file)
      THEN Outcome(mc, "IOError", <<>>, <<>>)
    ELSE LET mc1 == IF par_file # NoParFile
                      THEN [mc EXCEPT !.pst = parrep(mc.pst, par_file)] ELSE mc
         IN  IF cov \notin {"None", "Cov"}
               THEN Outcome(mc1, "AssertionError", <<>>, <<>>)
             ELSE LET mc2 == [mc1 EXCEPT !.parensemble =
                                 IF enforce_bounds THEN Enforce(par_en) ELSE par_en]
                      mc3 == IF obs THEN [mc2 EXCEPT !.obsensemble = obs_en] ELSE mc2
                  IN  Outcome(mc3, "None", <<>>, <<>>)

\* project_parensemble that projects in place whatever the inplace flag says
project_parensemble_always_inplace(mc, s, par_file, nsing, inplace) ==
    IF ~mc.jco THEN Outcome(mc, "AssertionError", <<>>, <<>>)
    ELSE IF par_file # NoParFile /\ ~Exists(par_file)
      THEN Outcome(mc, "AssertionError", <<>>, <<>>)
    ELSE LET mc1 == IF par_file # NoParFile
                      THEN [mc EXCEPT !.pst = parrep(mc.pst, par_file)] ELSE mc
             en == Project(mc1.parensemble, get_null_proj(s, nsing))
         IN  Outcome([mc1 EXCEPT !.parensemble = en], "None",
                     IF inplace THEN <<>> ELSE <<en>>, <<>>)

\* project_parensemble with the parameter file read before the Jacobian is
\* asserted
project_parensemble_parrep_first(mc, s, par_file, nsing, inplace) ==
    IF par_file # NoParFile /\ ~Exists(par_file)
      THEN Outcome(mc, "AssertionError", <<>>, <<>>)
    ELSE LET mc1 == IF par_file # NoParFile
                      THEN [mc EXCEPT !.pst = parrep(mc.pst, par_file)] ELSE mc
             en == Project(mc1.parensemble, get_null_proj(s, nsing))
         IN  IF ~mc.jco THEN Outcome(mc1, "AssertionError", <<>>, <<>>)
             ELSE IF inplace
               THEN Outcome([mc1 EXCEPT !.parensemble = en], "None", <<>>, <<>>)
             ELSE Outcome(mc1, "None", <<en>>, <<>>)

\* MonteCarlo.project_parensemble
project_parensemble(mc, s, par_file, nsing, inplace) ==
    IF ~mc.jco THEN Outcome(mc, "AssertionError", <<>>, <<>>)
    ELSE IF par_file # NoParFile /\ ~Exists(par_file)
      THEN Outcome(mc, "AssertionError", <<>>, <<>>)
    ELSE LET mc1 == IF par_file # NoParFile
                      THEN [mc EXCEPT !.pst = parrep(mc.pst, par_file)] ELSE mc
             en == Project(mc1.parensemble, get_null_proj(s, nsing))
         IN  IF inplace THEN Outcome([mc1 EXCEPT !.parensemble = en], "None", <<>>, <<>>)
             ELSE Outcome(mc1, "None", <<en>>, <<>>)

Digit(d) == <<"0", "1", "2", "3", "4", "5", "6", "7", "8", "9">>[d + 1]

\* "{0:d}".format(i)
RECURSIVE FormatInt(_)
FormatInt(i) ==
    IF i < 10 THEN <<Digit(i)>> ELSE FormatInt(i \div 10) \o <<Digit(i % 10)>>

\* pst_name = prefix + "{0:d}.pst".format(i)
PstName(prefix, i) == prefix \o FormatInt(i) \o <<".", "p", "s", "t">>

\* Realize with the observation test relaxed to "at least num_reals rows"
RealizeIfEnoughRows(pst, mc, par_en, i) ==
    LET p1 == [pst EXCEPT !.parval1 = par_en.rows[i + 1]]
    IN  IF Shape0(mc.obsensemble) >= num_reals(mc)
          THEN [p1 EXCEPT !.obsval = mc.obsensemble.rows[i + 1]]
          ELSE p1

\* the two assignments in the loop of write_psts: realization i into the copy
Realize(pst, mc, par_en, i) ==
    LET p1 == [pst EXCEPT !.parval1 = par_en.rows[i + 1]]
    IN  IF Shape0(mc.obsensemble) = num_reals(mc)
          THEN [p1 EXCEPT !.obsval = mc.obsensemble.rows[i + 1]]
          ELSE p1

\* "for i in range(self.num_reals)": the files written, in order
RECURSIVE WriteLoop(_, _, _, _, _, _)
WriteLoop(pst, mc, par_en, prefix, i, written) ==
    IF i >= num_reals(mc) THEN written
    ELSE LET p == Realize(pst, mc, par_en, i)
         IN  WriteLoop(p, mc, par_en, prefix, i + 1,
                       Append(written, [name |-> PstName(prefix, i), pst |-> p]))

\* WriteParEn without the back-transformation
WriteParEnAsStored(mc) == mc.parensemble

\* the ensemble write_psts takes the parameter values from
WriteParEn(mc) ==
    IF mc.parensemble.islog THEN BackTransform(mc.parensemble) ELSE mc.parensemble

\* write_psts with the back-transformation done in place
write_psts_inplace(mc, prefix) ==
    Outcome([mc EXCEPT !.parensemble = WriteParEn(mc)], "None", <<>>,
            WriteLoop(PstGet(mc.pst), mc, WriteParEn(mc), prefix, 0, <<>>))

\* write_psts with an assertion that realizations have been drawn
write_psts_asserting(mc, prefix) ==
    IF num_reals(mc) = 0 THEN Outcome(mc, "AssertionError", <<>>, <<>>)
    ELSE Outcome(mc, "None", <<>>,
                 WriteLoop(PstGet(mc.pst), mc, WriteParEn(mc), prefix, 0, <<>>))

\* MonteCarlo.write_psts
write_psts(mc, prefix) ==
    Outcome(mc, "None", <<>>,
            WriteLoop(PstGet(mc.pst), mc, WriteParEn(mc), prefix, 0, <<>>))

-----------------------------------------------------------------------------
(* Input files *)

\* bounds of the files and strings the parsers are run on
MaxHeaderTokens == 3
MaxTplBody == 6
MaxInsPieces == 5
MaxScanLen == 5
MaxSpectrum == 3
MaxReals == 2

\* all sequences over S of length at most n
SeqsUpTo(S, n) == UNION {[1..k -> S] : k \in 0..n}

\* " ".join(tokens)
RECURSIVE Join(_)
Join(tokens) ==
    IF tokens = <<>> THEN <<>>
    ELSE IF Len(tokens) = 1 THEN Head(tokens)
    ELSE Head(tokens) \o <<" ">> \o Join(Tail(tokens))

\* a file whose first line is header and whose other lines are body
FileText(header, body) == IF body = <<>> THEN header ELSE header \o <<"\n">> \o body

TplTokens == {<<"p", "t", "f">>, <<"J", "T", "F">>, <<"p", "i", "f">>,
              <<"#">>, <<"#", "#">>, <<"a">>}

TplAlphabet == {"#", "a", "A", " ", "\n"}

TplSomeBodies == {<<>>, <<"#", "a", "#">>,
                  <<"a", "#", "a", "#", " ", "#", "A", " ", "#", "\n", "#", "a">>}

TplValidHeaders == {<<"p", "t", "f", " ", "#">>, <<"J", "T", "F", " ", "#">>}

\* every header shape with a few bodies, and the valid headers with every body
TplFiles(max_header, max_body) ==
    {[name |-> n, text |-> FileText(Join(h), b)] :
        n \in {"a.tpl", "b.tpl"}, h \in SeqsUpTo(TplTokens, max_header),
        b \in TplSomeBodies}
    \cup
    {[name |-> "a.tpl", text |-> FileText(h, b)] :
        h \in TplValidHeaders, b \in SeqsUpTo(TplAlphabet, max_body)}

InsTokens == {<<"p", "i", "f">>, <<"J", "I", "F">>, <<"p", "t", "f">>,
              <<"~">>, <<"~", "~">>, <<"o">>}

\* instruction bodies are built from these pieces, so that the sentinel name,
\* its padded and its upper-case spellings fit in a short body
InsPieces == {<<"!">>, <<" ">>, <<"d", "u", "m">>, <<"D", "U", "M">>, <<"o">>,
              <<"(">>, <<")">>, <<"~">>, <<"\n">>}

RECURSIVE Flatten(_)
Flatten(pieces) == IF pieces = <<>> THEN <<>> ELSE Head(pieces) \o Flatten(Tail(pieces))

InsSomeBodies == {<<>>, <<"l", "1", " ", "~", ",", "~", " ", "!", "h", "1", "!">>,
                  <<"!", "o", "!", " ", "(", "O", ")", "!", "d", "u", "m", "!">>}

InsValidHeader == <<"p", "i", "f", " ", "~">>

InsFiles(max_header, max_pieces) ==
    {[name |-> "a.ins", text |-> FileText(Join(h), b)] :
        h \in SeqsUpTo(InsTokens, max_header), b \in InsSomeBodies}
    \cup
    {[name |-> "a.ins", text |-> FileText(InsValidHeader, Flatten(b))] :
        b \in SeqsUpTo(InsPieces, max_pieces)}

ScanAlphabet == {"[", "]", "(", ")", "!", "o"}

ScanStrings(max_len) == SeqsUpTo(ScanAlphabet, max_len)

NoFile == [name |-> "", text |-> <<>>]

-----------------------------------------------------------------------------
(* The template parser run on one file *)

TplIdle == tpl_file = NoFile /\ tpl_ret = NotCalled

InitTpl ==
    /\ tpl_file \in TplFiles(MaxHeaderTokens, MaxTplBody)
    /\ tpl_ret = NotCalled

ParseTpl ==
    /\ tpl_ret = NotCalled
    /\ tpl_ret' = parse_tpl_file(tpl_file)
    /\ UNCHANGED tpl_file

-----------------------------------------------------------------------------
(* The instruction parser run on one file *)

InsIdle == ins_file = NoFile /\ ins_ret = NotCalled

InitIns ==
    /\ ins_file \in InsFiles(MaxHeaderTokens, MaxInsPieces)
    /\ ins_ret = NotCalled

ParseIns ==
    /\ ins_ret = NotCalled
    /\ ins_ret' = parse_ins_file(ins_file)
    /\ UNCHANGED ins_file

-----------------------------------------------------------------------------
(* parse_ins_string run on one string, one loop pass per step *)

ScanIdle == string = <<>> /\ scan = [ScanStart EXCEPT !.pc = "return"]

InitScan ==
    /\ string \in ScanStrings(MaxScanLen)
    /\ scan = ScanStart

ScanLoop ==
    /\ scan.pc = "loop"
    /\ scan' = ScanStep(string, scan)
    /\ UNCHANGED string

-----------------------------------------------------------------------------
(* get_nsing run on one spectrum *)

SingularValues == {0, 1, 2, 10}

Spectra(max_len) == {s \in SeqsUpTo(SingularValues, max_len) : s # <<>> /\ SeqMax(s) > 0}

Epsilons == {<<-1, 1>>, <<0, 1>>, <<1, 10>>, <<1, 5>>, <<1, 2>>, <<1, 1>>, <<2, 1>>}

NsingIdle == epsilon = DefaultEpsilon /\ nsing_ret = None

InitNsing ==
    /\ spectrum \in Spectra(MaxSpectrum)
    /\ epsilon \in Epsilons
    /\ nsing_ret = None

GetNsing ==
    /\ nsing_ret = None
    /\ nsing_ret' = get_nsing(spectrum, epsilon)
    /\ UNCHANGED <<spectrum, epsilon>>

-----------------------------------------------------------------------------
(* The MonteCarlo engine under any sequence of method calls *)

\* the realizations a draw can produce, one sample per row
ParSamples == {<<0, 2>>, <<1, 0>>}
ObsSamples == {<<0>>, <<1>>}

\* the observation noise a draw of n realizations can produce: consecutive
\* realizations differ, and the first one is either sample
ObsDraws(n) == {[i \in 1..n |-> <<(k + i) % 2>>] : k \in 0..1}

\* the cov argument of draw: omitted, a Cov instance, or something else
Covs == {"None", "Cov", "ndarray"}

\* the spectrum of the engine's XtQX: rank one, the second singular value is zero
EngineSpectra == {<<1, 0>>}

Prefixes == {<<"r">>, <<"r", "1">>}

Called(op, par_file, prefix, out) ==
    [op |-> op, par_file |-> par_file, prefix |-> prefix,
     raised |-> out.raised, ret |-> out.ret, written |-> out.written]

MCIdle ==
    /\ self = NewMonteCarlo(FALSE)
    /\ call = Called("__init__", NoParFile, <<>>, Outcome(self, "None", <<>>, <<>>))

InitMC ==
    /\ spectrum \in EngineSpectra
    /\ \E jco \in BOOLEAN, islog \in BOOLEAN :
          self = [NewMonteCarlo(jco) EXCEPT !.parensemble.islog = islog]
    /\ call = Called("__init__", NoParFile, <<>>, Outcome(self, "None", <<>>, <<>>))

\* draw raises before it draws anything: par_file is missing, or cov is not a Cov
DrawRaises ==
    \E n \in 0..MaxReals, par_file \in ParFiles, cov \in Covs :
        LET out == draw(self, n, par_file, FALSE, FALSE, cov,
                        self.parensemble, self.obsensemble)
        IN  /\ out.raised # "None"
            /\ self' = out.self
            /\ call' = Called("draw", par_file, <<>>, out)
            /\ UNCHANGED spectrum

DrawReturns ==
    \E n \in 0..MaxReals, par_file \in {f \in ParFiles : f = NoParFile \/ Exists(f)},
       obs \in BOOLEAN,
       enforce_bounds \in BOOLEAN, cov \in {"None"} :
      \E par_rows \in [1..n -> ParSamples],
         obs_rows \in IF obs THEN ObsDraws(n) ELSE {<<>>} :
        LET out == draw(self, n, par_file, obs, enforce_bounds, cov,
                        [self.parensemble EXCEPT !.rows = par_rows],
                        [rows |-> obs_rows])
        IN  /\ out.raised = "None"
            /\ self' = out.self
            /\ call' = Called("draw", par_file, <<>>, out)
            /\ UNCHANGED spectrum

ProjectParensemble ==
    \E par_file \in ParFiles, nsing \in {None} \cup (0..NPar), inplace \in BOOLEAN :
        LET out == project_parensemble(self, spectrum, par_file, nsing, inplace)
        IN  /\ self' = out.self
            /\ call' = Called("project_parensemble", par_file, <<>>, out)
            /\ UNCHANGED spectrum

WritePsts ==
    \E prefix \in Prefixes :
        LET out == write_psts(self, prefix)
        IN  /\ self' = out.self
            /\ call' = Called("write_psts", NoParFile, prefix, out)
            /\ UNCHANGED spectrum

-----------------------------------------------------------------------------
(* Specifications: each runs one part of the program, the rest stays idle *)

NextTpl == ParseTpl /\ UNCHANGED <<insVars, scanVars, spectrum, nsingVars, mcVars>>

StartTpl == InitTpl /\ InsIdle /\ ScanIdle /\ spectrum = <<1>> /\ NsingIdle /\ MCIdle

SpecTpl == StartTpl /\ [][NextTpl]_vars

NextIns == ParseIns /\ UNCHANGED <<tplVars, scanVars, spectrum, nsingVars, mcVars>>

StartIns == TplIdle /\ InitIns /\ ScanIdle /\ spectrum = <<1>> /\ NsingIdle /\ MCIdle

SpecIns == StartIns /\ [][NextIns]_vars

NextScan == ScanLoop /\ UNCHANGED <<tplVars, insVars, spectrum, nsingVars, mcVars>>

\* the loop of parse_ins_string keeps running until it returns or raises
FairScan == WF_vars(NextScan)

StartScan == TplIdle /\ InsIdle /\ InitScan /\ spectrum = <<1>> /\ NsingIdle /\ MCIdle

SpecScan == StartScan /\ [][NextScan]_vars

SpecScanFair == StartScan /\ [][NextScan]_vars /\ FairScan

NextNsing == GetNsing /\ UNCHANGED <<tplVars, insVars, scanVars, mcVars>>

StartNsing == TplIdle /\ InsIdle /\ ScanIdle /\ InitNsing /\ MCIdle

SpecNsing == StartNsing /\ [][NextNsing]_vars

NextMC ==
    \/ DrawRaises /\ UNCHANGED <<tplVars, insVars, scanVars, nsingVars>>
    \/ DrawReturns /\ UNCHANGED <<tplVars, insVars, scanVars, nsingVars>>
    \/ ProjectParensemble /\ UNCHANGED <<tplVars, insVars, scanVars, nsingVars>>
    \/ WritePsts /\ UNCHANGED <<tplVars, insVars, scanVars, nsingVars>>

StartMC == TplIdle /\ InsIdle /\ ScanIdle /\ NsingIdle /\ InitMC

SpecMC == StartMC /\ [][NextMC]_vars

-----------------------------------------------------------------------------
(* Properties of parse_tpl_file *)

\* the whitespace-separated entries of the first line of a file
HeaderOf(text) == SplitWs(ReadLine(text))

NoDuplicates(seq) == \A i, j \in 1..Len(seq) : seq[i] = seq[j] => i = j

\* seq without the elements that occurred earlier in it
RECURSIVE FirstOccurrences(_)
FirstOccurrences(seq) ==
    IF seq = <<>> THEN <<>>
    ELSE LET init == FirstOccurrences(SubSeq(seq, 1, Len(seq) - 1))
             last == seq[Len(seq)]
         IN  IF InList(last, init) THEN init ELSE Append(init, last)

\* every marker-delimited field of the body, in file order
RECURSIVE TplFields(_, _)
TplFields(lines, marker) ==
    IF lines = <<>> THEN <<>>
    ELSE OddItems(SplitOn(Strip(Head(lines)), marker)) \o TplFields(Tail(lines), marker)

\* C1: for a template file with a valid header, the returned list has no
\* duplicate name and lists the lower-cased, trimmed parameter names in order
\* of first occurrence across the whole file.
C1_TplNamesDistinctInFirstOccurrenceOrder ==
    tpl_ret.raised = "None" =>
        /\ NoDuplicates(tpl_ret.ret)
        /\ tpl_ret.ret = FirstOccurrences(Normalise(
               TplFields(RestLines(tpl_file.text), HeaderOf(tpl_file.text)[2][1])))

TplHeaderOk(h) ==
    /\ Len(h) = 2
    /\ LowerStr(h[1]) \in {<<"p", "t", "f">>, <<"j", "t", "f">>}
    /\ Len(h[2]) = 1

\* C10: parse_tpl_file fails with an error naming the template file when the
\* header has other than two entries, when the first entry is not ptf/jtf
\* (case-insensitive) or when the marker is not one character; with a header
\* that passes these checks it returns, whatever the body.
C10_TplHeaderErrorsNameFile ==
    tpl_ret # NotCalled =>
        IF TplHeaderOk(HeaderOf(tpl_file.text))
          THEN tpl_ret.raised = "None"
          ELSE tpl_ret.raised = "Exception" /\ tpl_ret.file = tpl_file.name

\* a three-entry header that starts well is rejected, and the error names b.tpl
C10_Witness ==
    /\ tpl_ret.raised = "Exception"
    /\ tpl_file.name = "b.tpl"
    /\ Len(HeaderOf(tpl_file.text)) = 3
    /\ HeaderOf(tpl_file.text)[1] = <<"p", "t", "f">>
    /\ HeaderOf(tpl_file.text)[2] = <<"#">>

-----------------------------------------------------------------------------
(* Properties of parse_ins_file and parse_ins_string *)

\* the tokens parse_ins_string returns for the scanned items of every line
RECURSIVE InsTokensInScanOrder(_, _)
InsTokensInScanOrder(lines, marker) ==
    IF lines = <<>> THEN <<>>
    ELSE LET items == InsItems(Head(lines), marker)
             Tokens(k) == parse_ins_string(items[k]).ret
             RECURSIVE Upto(_)
             Upto(k) == IF k = 0 THEN <<>> ELSE Upto(k - 1) \o Tokens(k)
         IN  Upto(Len(items)) \o InsTokensInScanOrder(Tail(lines), marker)

\* C2: for an instruction file with a valid header, the returned list holds
\* the extracted tokens in scan order and never contains the name "dum".
C2_InsNamesInScanOrderWithoutDum ==
    ins_ret.raised = "None" =>
        /\ ~InList(<<"d", "u", "m">>, ins_ret.ret)
        /\ ins_ret.ret = Normalise(InsTokensInScanOrder(
               RestLines(ins_file.text), HeaderOf(ins_file.text)[2][1]))

\* an opening marker at the scan position with no closing marker after it
UnclosedAt(s, i) ==
    /\ i <= Len(s) - 2
    /\ InList(s[i + 1], istart_markers)
    /\ \A j \in (i + 2)..Len(s) :
          s[j] # iend_markers[ListIndex(istart_markers, s[i + 1]) + 1]

\* C3: parse_ins_string raises no error; an opening marker without a closing
\* marker after it yields the text up to the end of the string as its token,
\* and the scan ends normally.
C3_ScanNeverRaises ==
    [][/\ scan'.pc # "ValueError"
       /\ (scan.pc = "loop" /\ UnclosedAt(string, scan.idx)) =>
             /\ scan'.pc = "loop"
             /\ scan'.idx >= Len(string)
             /\ scan'.obs_names =
                    Append(scan.obs_names, Slice(string, scan.idx + 1, Len(string)))]_vars

InsHeaderOk(h) ==
    /\ Len(h) = 2
    /\ LowerStr(h[1]) \in {<<"p", "i", "f">>, <<"j", "i", "f">>}
    /\ Len(h[2]) = 1

\* C9: parse_ins_file fails when the header has other than two entries, when
\* the first entry is not pif/jif (case-insensitive) or when the marker is not
\* one character.
C9_InsHeaderShapeRejected ==
    (ins_ret # NotCalled /\ ~InsHeaderOk(HeaderOf(ins_file.text))) =>
        ins_ret.raised # "None"

-----------------------------------------------------------------------------
(* Properties of get_nsing *)

\* s / max >= eps
Significant(s, max, eps) == ~RatLess(<<s, max>>, eps)

Descending(s) == \A i \in 1..(Len(s) - 1) : s[i] >= s[i + 1]

\* C4: get_nsing returns the number of singular values whose ratio to the
\* largest is at least epsilon (a ratio equal to epsilon counts): 0 when every
\* ratio is below epsilon, the length when none is, and for a descending
\* spectrum the values up to nsing are significant and the next one is not.
C4_NsingCountsSignificant ==
    nsing_ret # None =>
        LET max == SeqMax(spectrum)
            sig == {i \in 1..Len(spectrum) : Significant(spectrum[i], max, epsilon)}
        IN  /\ nsing_ret = Cardinality(sig)
            /\ sig = {} => nsing_ret = 0
            /\ sig = 1..Len(spectrum) => nsing_ret = Len(spectrum)
            /\ Descending(spectrum) =>
                  /\ nsing_ret >= 1 =>
                        Significant(spectrum[nsing_ret], spectrum[1], epsilon)
                  /\ \/ nsing_ret = Len(spectrum)
                     \/ ~Significant(spectrum[nsing_ret + 1], spectrum[1], epsilon)

\* a descending spectrum with a ratio equal to epsilon, cut between two values
C4_Witness ==
    /\ nsing_ret = 2
    /\ spectrum = <<10, 1, 0>>
    /\ epsilon = <<1, 10>>

\* e1 <= e2
RatLeq(e1, e2) == ~RatLess(e2, e1)

\* C11: get_nsing does not increase with epsilon: for the spectrum at hand
\* and every other epsilon, the larger of the two epsilons gives a result
\* that is not above the result for the smaller one.
C11_NsingMonotoneInEpsilon ==
    nsing_ret # None =>
        \A e \in Epsilons :
            /\ RatLeq(epsilon, e) => get_nsing(spectrum, e) <= nsing_ret
            /\ RatLeq(e, epsilon) => nsing_ret <= get_nsing(spectrum, e)

\* a larger epsilon gives a strictly smaller result, a smaller one a larger
C11_Witness ==
    /\ nsing_ret = 2
    /\ spectrum = <<10, 2, 1>>
    /\ epsilon = <<1, 5>>
    /\ get_nsing(spectrum, <<1, 2>>) = 1
    /\ get_nsing(spectrum, <<1, 10>>) = 3

-----------------------------------------------------------------------------
(* Properties of the MonteCarlo engine *)

\* row i (0-based) of the parameter ensemble, out of log space if need be
RealizedRow(mc, i) ==
    IF mc.parensemble.islog
      THEN [c \in 1..NPar |-> Pow10(mc.parensemble.rows[i + 1][c])]
      ELSE mc.parensemble.rows[i + 1]

\* C5: write_psts writes one control file per realization, named
\* prefix + str(i) + ".pst" for i = 0 .. num_reals-1 in increasing i, and file
\* i carries row i of the parameter ensemble, back-transformed out of log
\* space when the ensemble is log-transformed.
C5_WritePstsOneFilePerRealization ==
    call.op = "write_psts" =>
        /\ Len(call.written) = num_reals(self)
        /\ Cardinality({call.written[k].name : k \in 1..Len(call.written)})
               = num_reals(self)
        /\ \A i \in 0..(num_reals(self) - 1) :
              /\ call.written[i + 1].name
                     = call.prefix \o FormatInt(i) \o <<".", "p", "s", "t">>
              /\ call.written[i + 1].pst.parval1 = RealizedRow(self, i)

\* two different realizations in log space have been written
C5_Witness ==
    /\ call.op = "write_psts"
    /\ num_reals(self) = 2
    /\ self.parensemble.islog
    /\ self.parensemble.rows[1] # self.parensemble.rows[2]
    /\ Len(call.written) = 2

\* C6: write_psts leaves the engine as it was (both ensembles, the
\* log-transform flag, the control file), so a second call with the same
\* prefix writes the same files with the same contents.
C6_WritePstsFrame ==
    [][call'.op = "write_psts" =>
          /\ self' = self
          /\ (call.op = "write_psts" /\ call.prefix = call'.prefix) =>
                call'.written = call.written]_vars

\* realizations in log space have been written, with observation values
C6_Witness ==
    /\ call.op = "write_psts"
    /\ num_reals(self) >= 1
    /\ self.parensemble.islog
    /\ Shape0(self.obsensemble) = num_reals(self)

\* C7: without a Jacobian project_parensemble fails on its assertion before
\* it changes anything, also when a par_file is given.
C7_ProjectWithoutJacobianFrame ==
    [][(call'.op = "project_parensemble" /\ ~self.jco) =>
          /\ call'.raised = "AssertionError"
          /\ self' = self]_vars

\* the failed call had a par_file and an ensemble to project
C7_Witness ==
    /\ call.op = "project_parensemble"
    /\ ~self.jco
    /\ call.par_file = "ref.par"
    /\ call.raised = "AssertionError"
    /\ num_reals(self) >= 1
    /\ self.pst = Pst0

\* C8 as claimed: write_psts on an engine without realizations is reported
\* as an error and does not return normally.
C8_WriteEmptyRaises ==
    (call.op = "write_psts" /\ num_reals(self) = 0) => call.raised # "None"

\* C8: write_psts on an engine without realizations returns normally and
\* writes no control file.
C8_WriteEmptyWritesNothing ==
    (call.op = "write_psts" /\ num_reals(self) = 0) =>
        call.raised = "None" /\ call.written = <<>>

C8_Witness ==
    /\ call.op = "write_psts"
    /\ num_reals(self) = 0
    /\ Shape0(self.obsensemble) = 0

C13_ObsvalOverwrittenIffRowCountsMatch ==
    call.op = "write_psts" =>
        \A i \in 0..(Len(call.written) - 1) :
            call.written[i + 1].pst.obsval =
                IF Shape0(self.obsensemble) = num_reals(self)
                  THEN self.obsensemble.rows[i + 1]
                  ELSE self.pst.obsval

\* files were written while the observation ensemble had more rows than the
\* parameter ensemble, and they carry the control file's observation values
C13_Witness ==
    /\ call.op = "write_psts"
    /\ num_reals(self) = 1
    /\ Shape0(self.obsensemble) = 2
    /\ Len(call.written) = 1
    /\ call.written[1].pst.obsval = Pst0.obsval
    /\ self.obsensemble.rows[1] # Pst0.obsval

\* the projectors project_parensemble can use: one per value of nsing
NullProjectors == {get_null_proj(spectrum, n) : n \in {None} \cup (0..NPar)}

\* row times matrix, entry by entry
RowByMatrix(row, proj) ==
    [b \in 1..NPar |-> IF NPar = 2 THEN row[1] * proj[1][b] + row[2] * proj[2][b]
                       ELSE RowTimes(row, proj, b, 1)]

\* en is the engine's ensemble before the call, every row times proj
ProjectedBy(en, before, proj) ==
    /\ en.islog = before.islog
    /\ Len(en.rows) = Len(before.rows)
    /\ \A r \in 1..Len(en.rows) : en.rows[r] = RowByMatrix(before.rows[r], proj)

\* C14: a successful project_parensemble with inplace=True (it returns None)
\* replaces the parameter ensemble by the ensemble times the null projector;
\* with inplace=False it returns that product and the engine's parameter
\* ensemble is as before the call.
C14_ProjectInplaceOrReturned ==
    [][(call'.op = "project_parensemble" /\ call'.raised = "None") =>
          IF call'.ret = <<>>
            THEN \E proj \in NullProjectors :
                    ProjectedBy(self'.parensemble, self.parensemble, proj)
            ELSE /\ self'.parensemble = self.parensemble
                 /\ \E proj \in NullProjectors :
                       ProjectedBy(call'.ret[1], self.parensemble, proj)]_vars

\* a projection was returned that differs from the ensemble the engine keeps
C14_Witness ==
    /\ call.op = "project_parensemble"
    /\ call.raised = "None"
    /\ call.ret # <<>>
    /\ num_reals(self) = 2
    /\ call.ret[1].rows # self.parensemble.rows
    /\ call.ret[1].rows[1] # call.ret[1].rows[2]

-----------------------------------------------------------------------------
(* Properties of the loop of parse_ins_string *)

\* C15: the loop looks for an opening marker at the positions 0 .. length-2
\* only: once the position is length-1 or beyond, the scan returns what it has
\* without a further token and without an error, so an opening marker in the
\* last position yields nothing and strings of length 0 or 1 yield no token.
C15_LastPositionNeverOpens ==
    [][/\ scan.idx >= Len(string) - 1 =>
             /\ scan'.pc = "return"
             /\ scan'.obs_names = scan.obs_names
       /\ Len(string) <= 1 => (scan'.pc = "return" /\ scan'.obs_names = <<>>)
       /\ (scan'.obs_names # scan.obs_names \/ scan'.pc = "ValueError") =>
             scan.idx <= Len(string) - 2]_vars

\* an opening marker in the last position, reached after a token, adds nothing
C15_Witness ==
    /\ string = <<"(", "o", ")", "!">>
    /\ scan.pc = "return"
    /\ scan.idx = Len(string) - 1
    /\ InList(string[Len(string)], istart_markers)
    /\ scan.obs_names = << <<"o">> >>

\* the closing marker that belongs to the opening marker c
CloserOf(c) ==
    CASE c = "[" -> "]" [] c = "(" -> ")" [] c = "!" -> "!"

\* one loop pass that goes on: past a plain character by one, past a token
\* to the position after the first closing marker behind the opening one,
\* the token being the text between the two
PassAdvances ==
    LET i == scan.idx
        c == string[i + 1]
        e == scan'.idx - 1
        token == SubSeq(string, i + 2, e)
    IN  /\ scan'.idx > i
        /\ c \notin {"[", "(", "!"} =>
              /\ scan'.idx = i + 1
              /\ scan'.obs_names = scan.obs_names
        /\ c \in {"[", "(", "!"} =>
              /\ scan'.idx >= i + 2
              /\ e <= Len(string) - 1
              /\ string[e + 1] = CloserOf(c)
              /\ \A j \in (i + 1)..(e - 1) : string[j + 1] # CloserOf(c)
              /\ scan'.obs_names =
                    IF LowerStr(token) = <<"d", "u", "m">> THEN scan.obs_names
                    ELSE Append(scan.obs_names, token)

\* C16: parse_ins_string terminates on every string: every loop pass that
\* goes on moves the position forward (by one past a plain character, to
\* after the closing marker past a token, so token spans do not overlap), the
\* position never passes length + 1, and the loop ends.
C16_ScanAdvancesAndEnds ==
    /\ [][(scan.pc = "loop" /\ scan'.pc = "loop") => PassAdvances]_vars
    /\ [](scan.idx <= Len(string) + 1)
    /\ <>(scan.pc # "loop")

\* two tokens were taken one after the other and the scan returned
C16_Witness ==
    /\ string = <<"!", "o", "!", "(", ")">>
    /\ scan.pc = "return"
    /\ scan.obs_names = << <<"o">>, <<>> >>
    /\ scan.idx = 5

====
